---- MODULE Spec2Model ----
(***************************************************************************)
(* echoi18n: i18n middleware for the Echo web framework.                   *)
(*                                                                         *)
(* The package source (i18n.go) is the second Go file stored in            *)
(* src/embed_test.go (lines 71-278); line numbers below refer to that      *)
(* file.  The model covers Config defaulting, the construction of the      *)
(* bundle and of the localizer map by NewMiddleware, the middleware        *)
(* handler, defaultLangHandler, Localize and MustLocalize.                 *)
(*                                                                         *)
(* Configs are heap objects shared by reference: ConfigDefault is the      *)
(* package-level instance returned by configDefault() when NewMiddleware   *)
(* is called without an argument; UserConfig is a *Config built by the     *)
(* caller.  Each NewMiddleware call is a process that runs the statements  *)
(* of NewMiddleware one shared-memory access at a time, so that calls that *)
(* overlap (with each other and with requests) are covered.                *)
(***************************************************************************)
EXTENDS Integers, Sequences, FiniteSets, TLC

\* ------------------------------------------------------------------ bounds
MaxNM  == 2     \* NewMiddleware calls in one run
MaxReq == 2     \* requests in flight at once

NMs  == 1..MaxNM
Reqs == 1..MaxReq

Nil == "nil"          \* a nil func or interface value
NilPtr == 0           \* a nil *i18n.Bundle or *sync.Map
NilSlice == <<Nil>>   \* a nil []language.Tag

\* -------------------------------------------------------- language tags
\* language.Tag values are "Und", "English", "Chinese" and "French".
\* language.Tag.String()
TagString(t) ==
  CASE t = "English" -> "en"
    [] t = "Chinese" -> "zh"
    [] t = "French"  -> "fr"
    [] OTHER         -> "und"

\* ------------------------------------------------- message files on disk
\* A message template: its text and whether it refers to {{.name}}.
Tmpl(text, usesName) == [text |-> text, usesName |-> usesName]

EnMessages == ("welcome" :> Tmpl("hello", FALSE)) @@
              ("welcomeWithName" :> Tmpl("hello", TRUE))
\* "nihao" stands for the Chinese greeting of zh.yaml.
ZhMessages == ("welcome" :> Tmpl("nihao", FALSE)) @@
              ("welcomeWithName" :> Tmpl("nihao", TRUE))
\* A message of the caller's own zh file that its en file lacks.
ZhOnlyMessages == ("bye" :> Tmpl("zaijian", FALSE))

NoFile == [missing |-> TRUE]
File(encoding, messages) ==
  [missing |-> FALSE, encoding |-> encoding, messages |-> messages]

\* The bundle files that exist: <lang>.yaml under ./example/localize,
\* <lang>.json under ./example/localizeJSON/ (also embedded), and the
\* caller's <lang>.yaml under ./localize.
FileAt(root, name, format) ==
  IF \/ (root = "./example/localize" /\ format = "yaml")
     \/ (root = "./example/localizeJSON/" /\ format = "json")
  THEN CASE name = "en" -> File(format, EnMessages)
         [] name = "zh" -> File(format, ZhMessages)
         [] OTHER       -> NoFile
  ELSE IF root = "./localize" /\ format = "yaml"
  THEN CASE name = "en" -> File(format, EnMessages)
         [] name = "zh" -> File(format, ZhMessages @@ ZhOnlyMessages)
         [] OTHER       -> NoFile
  ELSE NoFile

\* Loader.LoadMessage(path.Join(root, name + "." + format)): the disk loader
\* sees every file, the embedded loader only the embedded directory.
LoadMessageFile(loader, root, name, format) ==
  IF loader = "embed" /\ root # "./example/localizeJSON/"
  THEN NoFile
  ELSE FileAt(root, name, format)

\* bundle.ParseMessageFileBytes with the unmarshal function registered for
\* the format: a JSON decoder cannot read YAML, a YAML decoder reads both.
ParseOk(unmarshal, file) == unmarshal = "yaml" \/ file.encoding = "json"

\* ---------------------------------------------------------- configuration
ConfigDefaultValue ==
  [DefaultLanguage  |-> "English",
   AcceptLanguages  |-> <<"Chinese", "English">>,
   FormatBundleFile |-> "yaml",
   Loader           |-> "os",
   RootPath         |-> "./example/localize",
   LangHandler      |-> "defaultLangHandler",
   UnmarshalFunc    |-> "yaml",
   bundle           |-> NilPtr,
   localizerMap     |-> NilPtr]

\* The zero Config{}.
ZeroConfig ==
  [DefaultLanguage  |-> "Und",
   AcceptLanguages  |-> NilSlice,
   FormatBundleFile |-> "",
   Loader           |-> Nil,
   RootPath         |-> "",
   LangHandler      |-> Nil,
   UnmarshalFunc    |-> Nil,
   bundle           |-> NilPtr,
   localizerMap     |-> NilPtr]

\* The *Config values callers of the package build.
UserConfigs ==
  { \* embed_test.go newEmbedServer
    [ZeroConfig EXCEPT !.Loader = "embed", !.UnmarshalFunc = "json",
                       !.RootPath = "./example/localizeJSON/",
                       !.FormatBundleFile = "json"],
    \* README / example
    [ZeroConfig EXCEPT !.RootPath = "./localize",
                       !.AcceptLanguages = <<"Chinese", "English">>,
                       !.DefaultLanguage = "Chinese"],
    \* a default language outside the accepted languages
    [ZeroConfig EXCEPT !.DefaultLanguage = "French"],
    \* an accepted language without a bundle file
    [ZeroConfig EXCEPT !.AcceptLanguages = <<"English", "French">>] }

Configs == {"ConfigDefault", "UserConfig"}

\* configDefault applied to config[0]
configDefaultFill(cfg) ==
  [cfg EXCEPT
     !.DefaultLanguage  = IF @ = "Und" THEN "English" ELSE @,
     !.AcceptLanguages  = IF @ = NilSlice THEN <<"Chinese", "English">> ELSE @,
     !.FormatBundleFile = IF @ = "" THEN "yaml" ELSE @,
     !.Loader           = IF @ = Nil THEN "os" ELSE @,
     !.RootPath         = IF @ = "" THEN "./example/localize" ELSE @,
     !.LangHandler      = IF @ = Nil THEN "defaultLangHandler" ELSE @,
     !.UnmarshalFunc    = IF @ = Nil THEN "yaml" ELSE @]

\* configDefault(config...): the Config object NewMiddleware works on.
\* arg = Nil is the call without arguments.
configDefault(arg) == IF arg = Nil THEN "ConfigDefault" ELSE arg

\* ------------------------------------------------------ defaultLangHandler
\* An echo.Context as far as the package reads it: whether it is the nil
\* context, whether c.Request() is nil, the query parameter "lang" and the
\* header "Accept-Language".
Ctx(isNil, hasRequest, query, header) ==
  [isNil |-> isNil, hasRequest |-> hasRequest, query |-> query, header |-> header]

NilCtx == Ctx(TRUE, FALSE, "", "")

\* defaultLangHandler with a fault: the header is consulted before the query parameter.
defaultLangHandlerHeaderFirst(c, defaultLang) ==
  IF c.isNil \/ ~c.hasRequest THEN defaultLang
  ELSE IF c.header # "" THEN c.header
  ELSE IF c.query # "" THEN c.query
  ELSE defaultLang

defaultLangHandler(c, defaultLang) ==
  IF c.isNil \/ ~c.hasRequest THEN defaultLang
  ELSE IF c.query # "" THEN c.query
  ELSE IF c.header # "" THEN c.header
  ELSE defaultLang

\* ------------------------------------------------------------------ state
VARIABLES
  cfgs,     \* the Config objects: ConfigDefault and the caller's *Config
  bundles,  \* heap of i18n.Bundle objects, one allocated per NewMiddleware call
  lmaps,    \* heap of sync.Map objects, one allocated per initLocalizerMap call
  nm,       \* the NewMiddleware calls, numbered as they begin: position,
            \* Config worked on, loop index
  reqs,     \* the requests in flight: position, context, inputs, results
  lh        \* a direct call of defaultLangHandler: inputs and result

vars == <<cfgs, bundles, lmaps, nm, reqs, lh>>

\* i18n.Bundle: its default language and, per language tag, the messages
\* parsed so far.  NoBundle is a slot not allocated yet.
NoBundle == [defaultLanguage |-> "Und", messages |-> <<>>]

\* i18n.NewBundle(defaultLanguage): the default language's tag is registered,
\* without messages.
NewBundle(defaultLanguage) ==
  [defaultLanguage |-> defaultLanguage,
   messages |-> (TagString(defaultLanguage) :> <<>>)]

\* bundle.ParseMessageFileBytes: the file's messages are added under the
\* language named by the file.
AddMessages(b, name, messages) ==
  [b EXCEPT !.messages =
     (name :> (messages @@ (IF name \in DOMAIN @ THEN @[name] ELSE <<>>))) @@ @]

\* i18n.NewLocalizer(bundle, lang); NoLocalizer is the nil interface value.
NewLocalizer(bundle, lang) == [bundle |-> bundle, lang |-> lang]
NoLocalizer == [bundle |-> NilPtr, lang |-> ""]

\* sync.Map.Store and sync.Map.Load
Store(m, k, v) == (k :> v) @@ m
Load(m, k) == IF k \in DOMAIN m THEN m[k] ELSE NoLocalizer

IdleNM == [pc |-> "idle", cfg |-> "", i |-> 0]

\* An error value: the text fmt.Errorf puts in front, the message, and for
\* i18n.MessageNotFoundErr the message ID and the language tag it names.
Error(msg, id, lang) == [prefix |-> "", msg |-> msg, id |-> id, lang |-> lang]
NoErr == Error("", "", "")
\* fmt.Errorf("i18n.Localize error: %v", e)
Errorf(e) == [e EXCEPT !.prefix = "i18n.Localize error: "]

\* What a call ends with: a text and nil error, an empty text and an error,
\* or a panic with a value.  The text is the sequence of its pieces.
Ok(text)  == [kind |-> "ok", text |-> text, err |-> NoErr]
Err(e)    == [kind |-> "err", text |-> <<>>, err |-> e]
Panic(e)  == [kind |-> "panic", text |-> <<>>, err |-> e]
NoResult  == [kind |-> "none", text |-> <<>>, err |-> NoErr]
NoParams == [type |-> "none", isNil |-> TRUE, MessageID |-> "", name |-> ""]
IdleReq ==
  [pc |-> "idle", local |-> "", c |-> NilCtx, params |-> NoParams, must |-> FALSE,
   lang |-> "", localizer |-> NoLocalizer, res |-> NoResult, out |-> NoResult]

NoCall == [c |-> NilCtx, defaultLang |-> "", called |-> FALSE, out |-> ""]

Init ==
  /\ cfgs \in {f \in [Configs -> UserConfigs \cup {ConfigDefaultValue}] :
                 f["ConfigDefault"] = ConfigDefaultValue /\ f["UserConfig"] \in UserConfigs}
  /\ bundles = [p \in NMs |-> NoBundle]
  /\ lmaps = [p \in NMs |-> <<>>]
  /\ nm = [p \in NMs |-> IdleNM]
  /\ reqs = [r \in Reqs |-> IdleReq]
  /\ lh = NoCall

\* ----------------------------------------------------------- NewMiddleware
\* Where a call stands once loadMessages has handled the indexes below i:
\* in loadMessages, else in the loop of initLocalizerMap, else after it.
AfterLoad(cfg, i) ==
  IF i <= Len(cfg.AcceptLanguages) THEN [pc |-> "load", i |-> i]
  ELSE IF Len(cfg.AcceptLanguages) >= 1 THEN [pc |-> "init", i |-> 1]
  ELSE [pc |-> "ensure", i |-> 1]
\* Where a call stands once the loop of initLocalizerMap has handled the
\* indexes below i.
AfterStore(cfg, i) ==
  IF i <= Len(cfg.AcceptLanguages) THEN [pc |-> "init", i |-> i]
  ELSE [pc |-> "ensure", i |-> i]

\* NewMiddleware, up to cfg.bundle = bundle: the Config is chosen and
\* completed, a bundle is created for its default language and assigned.
NewMiddlewareStart(p, arg) ==
  /\ nm[p].pc = "idle"
  /\ \A o \in NMs : o < p => nm[o].pc # "idle"
  /\ LET c   == configDefault(arg)
         cfg == IF arg = Nil THEN cfgs[c] ELSE configDefaultFill(cfgs[c])
         pos == AfterLoad(cfg, 1)
     IN /\ bundles' = [bundles EXCEPT ![p] = NewBundle(cfg.DefaultLanguage)]
        /\ cfgs' = [cfgs EXCEPT ![c] = [cfg EXCEPT !.bundle = p]]
        /\ nm' = [nm EXCEPT ![p] = [pc |-> pos.pc, cfg |-> c, i |-> pos.i]]
  /\ UNCHANGED <<lmaps, reqs, lh>>

\* One iteration of loadMessages: loadMessage of the file of the i-th
\* accepted language into c.bundle, panicking when the loader or the parser
\* fails.
loadMessage(p) ==
  /\ nm[p].pc = "load"
  /\ LET c    == nm[p].cfg
         cfg  == cfgs[c]
         i    == nm[p].i
         name == TagString(cfg.AcceptLanguages[i])
         file == LoadMessageFile(cfg.Loader, cfg.RootPath, name, cfg.FormatBundleFile)
         pos  == AfterLoad(cfg, i + 1)
     IN IF file.missing \/ ~ParseOk(cfg.UnmarshalFunc, file)
        THEN /\ nm' = [nm EXCEPT ![p].pc = "panicked"]
             /\ UNCHANGED bundles
        ELSE /\ bundles' = [bundles EXCEPT ![cfg.bundle] = AddMessages(@, name, file.messages)]
             /\ nm' = [nm EXCEPT ![p].pc = pos.pc, ![p].i = pos.i]
  /\ UNCHANGED <<cfgs, lmaps, reqs, lh>>

\* initLocalizerMapStore with a fault: every iteration stores into the Config's own map, so the map is
\* assigned to c.localizerMap before it is complete.
initLocalizerMapStoreDirect(p) ==
  /\ nm[p].pc = "init"
  /\ LET c   == nm[p].cfg
         cfg == cfgs[c]
         i   == nm[p].i
         s   == TagString(cfg.AcceptLanguages[i])
         pos == IF i + 1 <= Len(cfg.AcceptLanguages)
                THEN [pc |-> "init", i |-> i + 1] ELSE [pc |-> "ensure", i |-> i + 1]
     IN /\ lmaps' = [lmaps EXCEPT ![p] = Store(@, s, NewLocalizer(cfg.bundle, s))]
        /\ cfgs' = [cfgs EXCEPT ![c].localizerMap = p]
        /\ nm' = [nm EXCEPT ![p].pc = pos.pc, ![p].i = pos.i]
  /\ UNCHANGED <<bundles, reqs, lh>>

\* One iteration of the loop of initLocalizerMap: a localizer of the i-th
\* accepted language, bound to c.bundle, is stored in the local map (empty
\* before the first iteration).
initLocalizerMapStore(p) ==
  /\ nm[p].pc = "init"
  /\ LET c   == nm[p].cfg
         cfg == cfgs[c]
         i   == nm[p].i
         s   == TagString(cfg.AcceptLanguages[i])
         pos == AfterStore(cfg, i + 1)
     IN /\ lmaps' = [lmaps EXCEPT ![p] = Store(@, s, NewLocalizer(cfg.bundle, s))]
        /\ nm' = [nm EXCEPT ![p].pc = pos.pc, ![p].i = pos.i]
  /\ UNCHANGED <<cfgs, bundles, reqs, lh>>

\* initLocalizerMapDefault with a fault: no localizer is stored for a default language outside the
\* accepted languages.
initLocalizerMapSkipDefault(p) ==
  /\ nm[p].pc = "ensure"
  /\ nm' = [nm EXCEPT ![p].pc = "publish"]
  /\ UNCHANGED <<cfgs, bundles, lmaps, reqs, lh>>

\* initLocalizerMap after the loop: a localizer of the default language is
\* stored unless the map has one.
initLocalizerMapDefault(p) ==
  /\ nm[p].pc = "ensure"
  /\ LET cfg  == cfgs[nm[p].cfg]
         lang == TagString(cfg.DefaultLanguage)
     IN lmaps' = [lmaps EXCEPT ![p] =
                    IF Load(@, lang) = NoLocalizer
                    THEN Store(@, lang, NewLocalizer(cfg.bundle, lang))
                    ELSE @]
  /\ nm' = [nm EXCEPT ![p].pc = "publish"]
  /\ UNCHANGED <<cfgs, bundles, reqs, lh>>

\* initLocalizerMap, c.mu.Lock(); c.localizerMap = localizerMap;
\* c.mu.Unlock(), and the return of the middleware function: the critical
\* section is the one assignment.
initLocalizerMapPublish(p) ==
  /\ nm[p].pc = "publish"
  /\ cfgs' = [cfgs EXCEPT ![nm[p].cfg].localizerMap = p]
  /\ nm' = [nm EXCEPT ![p].pc = "done"]
  /\ UNCHANGED <<bundles, lmaps, reqs, lh>>

\* ------------------------------------------------- the go-i18n localizer
\* The params values handlers pass to Localize: a string, a
\* *i18n.LocalizeConfig (possibly nil) with a message ID and TemplateData
\* {"name": name}, or a value of another type.
StringParam(id) == [type |-> "string", isNil |-> FALSE, MessageID |-> id, name |-> ""]
ConfigParam(id, name) ==
  [type |-> "*i18n.LocalizeConfig", isNil |-> FALSE, MessageID |-> id, name |-> name]
NilConfigParam ==
  [type |-> "*i18n.LocalizeConfig", isNil |-> TRUE, MessageID |-> "", name |-> ""]
OtherParam == [type |-> "int", isNil |-> FALSE, MessageID |-> "", name |-> ""]

\* A template executed on the request's TemplateData.
Render(t, lc) ==
  IF t.usesName
  THEN <<t.text, " ", IF lc.type = "string" THEN "<no value>" ELSE lc.name>>
  ELSE <<t.text>>

\* The text the bundle file of language name defines for a request.
FileText(cfg, name, lc) ==
  Render(LoadMessageFile(cfg.Loader, cfg.RootPath, name, cfg.FormatBundleFile)
           .messages[lc.MessageID], lc)

\* (*i18n.Localizer).Localize(lc) on bundle b: the bundle's tag matching the
\* localizer's language (the default language when none matches) is looked
\* up, then the default language; a message missing for the matched tag is
\* reported as MessageNotFoundErr of that tag, next to the default
\* language's text when that exists.  A nil lc is dereferenced.
LibLocalize(b, loc, lc) ==
  IF lc.isNil
  THEN [panic |-> TRUE, msg |-> <<>>, err |-> Error("nil pointer dereference", "", "")]
  ELSE
    LET def == TagString(b.defaultLanguage)
        tag == IF loc.lang \in DOMAIN b.messages THEN loc.lang ELSE def
        id  == lc.MessageID
        notFound == Error("message not found in language", id, tag)
    IN IF id \in DOMAIN b.messages[tag]
       THEN [panic |-> FALSE, msg |-> Render(b.messages[tag][id], lc), err |-> NoErr]
       ELSE IF tag # def /\ id \in DOMAIN b.messages[def]
       THEN [panic |-> FALSE, msg |-> Render(b.messages[def][id], lc), err |-> notFound]
       ELSE [panic |-> FALSE, msg |-> <<>>, err |-> notFound]

\* ---------------------------------------------------------------- requests
Queries == {"", "zh"}
Headers == {"", "en", "fr"}
Params  == {StringParam("welcome"), StringParam("welcome?"), StringParam("bye"),
            ConfigParam("welcomeWithName", "alex"), NilConfigParam, OtherParam}

\* MustLocalize with a fault: the error is dropped and the empty message returned.
MustLocalizeSwallow(res) == IF res.kind = "err" THEN Ok(<<>>) ELSE res

\* MustLocalize on what Localize returned: panic(err), or the message.
MustLocalize(res) == IF res.kind = "err" THEN Panic(res.err) ELSE res

\* Localize returns res to the handler, directly or through MustLocalize.
Return(q, res) ==
  [q EXCEPT !.pc = "done", !.localizer = NoLocalizer, !.res = res,
            !.out = IF q.must THEN MustLocalize(res) ELSE res]

\* A panic inside Localize unwinds through MustLocalize and the handler.
Unwind(q, e) ==
  [q EXCEPT !.pc = "done", !.localizer = NoLocalizer, !.res = Panic(e), !.out = Panic(e)]

\* Request slots are taken lowest first.
FreeSlot(r) == reqs[r].pc = "idle" /\ \A s \in Reqs : s < r => reqs[s].pc # "idle"

\* The handler NewMiddleware call p returned: c.Set(localsKey, cfg), then
\* next(c).
Middleware(r, p, query, header) ==
  /\ FreeSlot(r)
  /\ nm[p].pc = "done"
  /\ reqs' = [reqs EXCEPT ![r] = [IdleReq EXCEPT !.pc = "handler",
                                                 !.local = nm[p].cfg,
                                                 !.c = Ctx(FALSE, TRUE, query, header)]]
  /\ UNCHANGED <<cfgs, bundles, lmaps, nm, lh>>

\* A handler that runs without the middleware: nothing is stored under
\* localsKey ("none"), or a value that is no *Config ("wrong"), or the
\* handler passes a nil echo.Context on ("nilctx").
NoMiddleware(r, kind) ==
  /\ FreeSlot(r)
  /\ reqs' = [reqs EXCEPT ![r] = [IdleReq EXCEPT !.pc = "handler",
                                                 !.local = kind,
                                                 !.c = IF kind = "nilctx" THEN NilCtx
                                                       ELSE Ctx(FALSE, TRUE, "", "")]]
  /\ UNCHANGED <<cfgs, bundles, lmaps, nm, lh>>

\* The handler calls Localize (must = FALSE) or MustLocalize (must = TRUE);
\* Localize up to lang := appCfg.LangHandler(...).
LocalizeEnter(r, must) ==
  /\ reqs[r].pc = "handler"
  /\ LET q == [reqs[r] EXCEPT !.must = must]
     IN reqs' = [reqs EXCEPT ![r] =
          CASE q.c.isNil -> Unwind(q, Error("nil pointer dereference", "", ""))
            [] ~q.c.isNil /\ q.local = "none" ->
                 Return(q, Err(Errorf(Error("Config is nil", "", ""))))
            [] ~q.c.isNil /\ q.local = "wrong" ->
                 Return(q, Err(Errorf(Error("Config is not *Config type", "", ""))))
            [] OTHER ->
                 LET appCfg == cfgs[q.local]
                 IN [q EXCEPT !.pc = "load",
                              !.lang = defaultLangHandler(q.c, TagString(appCfg.DefaultLanguage))]]
  /\ UNCHANGED <<cfgs, bundles, lmaps, nm, lh>>

\* Localize: localizer, _ := appCfg.localizerMap.Load(lang)
LocalizeLoad(r) ==
  /\ reqs[r].pc = "load"
  /\ LET q == reqs[r]
         localizer == Load(lmaps[cfgs[q.local].localizerMap], q.lang)
     IN reqs' = [reqs EXCEPT ![r] =
          [q EXCEPT !.localizer = localizer,
                    !.pc = IF localizer = NoLocalizer THEN "fallback" ELSE "resolve"]]
  /\ UNCHANGED <<cfgs, bundles, lmaps, nm, lh>>

\* LocalizeFallback with a fault: no second Load when the language has no localizer.
LocalizeNoFallback(r) ==
  /\ reqs[r].pc = "fallback"
  /\ reqs' = [reqs EXCEPT ![r].pc = "resolve"]
  /\ UNCHANGED <<cfgs, bundles, lmaps, nm, lh>>

\* LocalizeFallback with a fault: the default language's localizer is stored in the shared map
\* under the request's language.
LocalizeFallbackStore(r) ==
  /\ reqs[r].pc = "fallback"
  /\ LET q      == reqs[r]
         appCfg == cfgs[q.local]
         l      == Load(lmaps[appCfg.localizerMap], TagString(appCfg.DefaultLanguage))
     IN /\ reqs' = [reqs EXCEPT ![r] = [q EXCEPT !.localizer = l, !.pc = "resolve"]]
        /\ lmaps' = [lmaps EXCEPT ![appCfg.localizerMap] = Store(@, q.lang, l)]
  /\ UNCHANGED <<cfgs, bundles, nm, lh>>

\* Localize: if localizer == nil, the default language's localizer is loaded.
LocalizeFallback(r) ==
  /\ reqs[r].pc = "fallback"
  /\ LET q      == reqs[r]
         appCfg == cfgs[q.local]
     IN reqs' = [reqs EXCEPT ![r] =
          [q EXCEPT !.localizer = Load(lmaps[appCfg.localizerMap],
                                       TagString(appCfg.DefaultLanguage)),
                    !.pc = "resolve"]]
  /\ UNCHANGED <<cfgs, bundles, lmaps, nm, lh>>

\* Localize from the switch on the type of params on:
\* localizer.(*i18n.Localizer).Localize(localizeConfig) on the bundle b the
\* localizer is bound to, and the return.
Resolve(q, b) ==
  IF q.params.type \notin {"string", "*i18n.LocalizeConfig"}
  THEN Return(q, Err(Errorf(Error("Invalid params type", "", ""))))
  ELSE IF q.localizer = NoLocalizer
  THEN Unwind(q, Error("interface conversion", "", ""))
  ELSE LET got == LibLocalize(b, q.localizer, q.params)
       IN IF got.panic THEN Unwind(q, got.err)
          ELSE IF got.err # NoErr THEN Return(q, Err(Errorf(got.err)))
          ELSE Return(q, Ok(got.msg))

\* params, the handler's argument, is read here for the first time.
LocalizeResolve(r, params) ==
  /\ reqs[r].pc = "resolve"
  /\ LET q == [reqs[r] EXCEPT !.params = params]
         b == IF q.localizer = NoLocalizer THEN NoBundle ELSE bundles[q.localizer.bundle]
     IN reqs' = [reqs EXCEPT ![r] = Resolve(q, b)]
  /\ UNCHANGED <<cfgs, bundles, lmaps, nm, lh>>

\* The framework sends the response (recovering a panic); the slot is free.
Respond(r) ==
  /\ reqs[r].pc = "done"
  /\ reqs' = [reqs EXCEPT ![r] = IdleReq]
  /\ UNCHANGED <<cfgs, bundles, lmaps, nm, lh>>

\* ------------------------------------------------------------ specification
\* The steps of the NewMiddleware calls P and of the requests R.
Step(P, R) ==
  \/ \E p \in P, arg \in {Nil, "UserConfig"} : NewMiddlewareStart(p, arg)
  \/ \E p \in P : loadMessage(p)
  \/ \E p \in P : initLocalizerMapStore(p)
  \/ \E p \in P : initLocalizerMapDefault(p)
  \/ \E p \in P : initLocalizerMapPublish(p)
  \/ \E r \in R, p \in P, query \in Queries, header \in Headers :
       Middleware(r, p, query, header)
  \/ \E r \in R, kind \in {"none", "wrong", "nilctx"} : NoMiddleware(r, kind)
  \/ \E r \in R, must \in BOOLEAN : LocalizeEnter(r, must)
  \/ \E r \in R : LocalizeLoad(r)
  \/ \E r \in R : LocalizeFallback(r)
  \/ \E r \in R, params \in Params : LocalizeResolve(r, params)
  \/ \E r \in R : Respond(r)

Next == Step(NMs, Reqs)

\* Any number of NewMiddleware calls and requests, all overlapping.
SpecAll == Init /\ [][Next]_vars

\* Overlapping NewMiddleware calls, and requests served one at a time.
Spec == Init /\ [][Step(NMs, {r \in Reqs : r = 1})]_vars

\* One NewMiddleware call, and overlapping requests.
SpecRequests == Init /\ [][Step({p \in NMs : p = 1}, Reqs)]_vars

\* A direct call of defaultLangHandler, as the handlers of
\* Test_defaultLangHandler make.
LangHandlerCtxs ==
  {NilCtx} \cup {Ctx(FALSE, hasRequest, query, header) :
                   hasRequest \in BOOLEAN, query \in {"", "en", "zh"},
                   header \in {"", "en", "zh", "fr"}}

InitLangHandler ==
  /\ Init!1 /\ Init!2 /\ Init!3 /\ Init!4 /\ Init!5
  /\ lh \in [c : LangHandlerCtxs, defaultLang : {"en", "zh", "fr"},
             called : {FALSE}, out : {""}]

CallLangHandler ==
  /\ ~lh.called
  /\ lh' = [lh EXCEPT !.called = TRUE, !.out = defaultLangHandler(lh.c, lh.defaultLang)]
  /\ UNCHANGED <<cfgs, bundles, lmaps, nm, reqs>>

SpecLangHandler == InitLangHandler /\ [][CallLangHandler]_vars

\* ================================================================== claims
Served(q) == q.local \in Configs
Done(q) == q.pc = "done"
PlainParams(lc) == lc.type \in {"string", "*i18n.LocalizeConfig"} /\ ~lc.isNil

AcceptedNames(cfg) ==
  {TagString(cfg.AcceptLanguages[i]) : i \in 1..Len(cfg.AcceptLanguages)}
BundleFile(cfg, name) ==
  LoadMessageFile(cfg.Loader, cfg.RootPath, name, cfg.FormatBundleFile)
\* Every accepted language's file has been parsed into bundle b.
FullyLoaded(cfg, b) ==
  \A name \in AcceptedNames(cfg) :
    /\ name \in DOMAIN b.messages
    /\ ~BundleFile(cfg, name).missing
    /\ b.messages[name] = BundleFile(cfg, name).messages

\* C1: a request served by the middleware whose language resolves to an
\* accepted language L, for a message ID that L's bundle file defines, gets
\* from Localize (and MustLocalize) exactly the text of that file with the
\* template data substituted, and no error.
C1_ExactText ==
  \A r \in Reqs :
    LET q == reqs[r]
        cfg == cfgs[q.local]
    IN (Done(q) /\ Served(q) /\ PlainParams(q.params)
        /\ q.lang \in AcceptedNames(cfg)
        /\ q.params.MessageID \in DOMAIN BundleFile(cfg, q.lang).messages)
       => /\ q.res = Ok(FileText(cfg, q.lang, q.params))
          /\ q.out = q.res

\* C2: defaultLangHandler returns the default language when the context or
\* its request is absent, else a non-empty query parameter lang, else a
\* non-empty Accept-Language header, else the default language.
C2_Precedence ==
  lh.called =>
    /\ (lh.c.isNil \/ ~lh.c.hasRequest) => lh.out = lh.defaultLang
    /\ (~lh.c.isNil /\ lh.c.hasRequest /\ lh.c.query # "") => lh.out = lh.c.query
    /\ (~lh.c.isNil /\ lh.c.hasRequest /\ lh.c.query = "" /\ lh.c.header # "")
         => lh.out = lh.c.header
    /\ (~lh.c.isNil /\ lh.c.hasRequest /\ lh.c.query = "" /\ lh.c.header = "")
         => lh.out = lh.defaultLang

C2_Witness ==
  /\ lh.called /\ ~lh.c.isNil /\ lh.c.hasRequest
  /\ lh.c.query = "en" /\ lh.c.header = "zh" /\ lh.defaultLang = "fr" /\ lh.out = "en"

\* C3: when the resolved language has no entry in the localizer map,
\* Localize goes on with the default language's localizer; a served request
\* never ends for want of a localizer, only with a missing message, an
\* invalid params type (or the nil params of C8).
C3_FallbackToDefault ==
  \A r \in Reqs :
    LET q == reqs[r]
        cfg == cfgs[q.local]
    IN Served(q) =>
         /\ q.pc = "resolve" =>
              /\ q.localizer # NoLocalizer
              /\ q.lang \notin DOMAIN lmaps[cfg.localizerMap]
                   => q.localizer.lang = TagString(cfg.DefaultLanguage)
              /\ q.lang \in DOMAIN lmaps[cfg.localizerMap]
                   => q.localizer.lang = q.lang
         /\ (Done(q) /\ q.res.kind = "err") =>
              q.res.err.msg \in {"message not found in language", "Invalid params type"}
         /\ (Done(q) /\ q.res.kind = "panic") => q.params.isNil

C3_Witness ==
  \E r \in Reqs :
    LET q == reqs[r]
    IN /\ Served(q) /\ q.pc = "resolve" /\ q.lang = "fr"
       /\ q.lang \notin DOMAIN lmaps[cfgs[q.local].localizerMap]
       /\ q.localizer.lang = "en"

\* What Localize gives a request run alone on the shared state as it is.
SoloResult(q) ==
  LET appCfg == cfgs[q.local]
      m      == lmaps[appCfg.localizerMap]
      first  == Load(m, q.lang)
      l      == IF first = NoLocalizer
                THEN Load(m, TagString(appCfg.DefaultLanguage)) ELSE first
      b      == IF l = NoLocalizer THEN NoBundle ELSE bundles[l.bundle]
  IN Resolve([q EXCEPT !.localizer = l], b).res

\* C4: requests running at once on one middleware are isolated: a step of a
\* request changes neither the Configs, the bundles, the localizer maps nor
\* any other request, and what a request gets is what Localize gives on
\* the shared state for its language and params alone.
C4_Isolated ==
  /\ [](\A r \in Reqs :
          (Done(reqs[r]) /\ Served(reqs[r])) => reqs[r].res = SoloResult(reqs[r]))
  /\ [][\A r \in Reqs :
          reqs'[r] # reqs[r] =>
            /\ cfgs' = cfgs /\ bundles' = bundles /\ lmaps' = lmaps
            /\ \A o \in Reqs \ {r} : reqs'[o] = reqs[o]]_vars

C4_Witness ==
  \E r, o \in Reqs :
    /\ r # o /\ reqs[r].local = reqs[o].local /\ Served(reqs[r])
    /\ reqs[r].pc = "resolve" /\ Done(reqs[o]) /\ reqs[o].res.kind = "ok"

C6_LoadedBeforeServed ==
  \A r \in Reqs :
    LET q == reqs[r]
        cfg == cfgs[q.local]
        m == lmaps[cfg.localizerMap]
    IN (Served(q) /\ q.pc \in {"load", "fallback", "resolve"}) =>
         /\ \A k \in DOMAIN m : FullyLoaded(cfg, bundles[m[k].bundle])
         /\ q.pc = "resolve" => FullyLoaded(cfg, bundles[q.localizer.bundle])

\* C7: once a NewMiddleware call has returned, the Config's localizer map
\* has an entry for the Config's default language.
C7_DefaultEntry ==
  \A p \in NMs :
    nm[p].pc = "done" =>
      LET cfg == cfgs[nm[p].cfg]
      IN /\ cfg.localizerMap # NilPtr
         /\ TagString(cfg.DefaultLanguage) \in DOMAIN lmaps[cfg.localizerMap]

C7_Witness ==
  \E p \in NMs :
    LET cfg == cfgs[nm[p].cfg]
    IN /\ nm[p].pc = "done"
       /\ TagString(cfg.DefaultLanguage) \notin AcceptedNames(cfg)
       /\ TagString(cfg.DefaultLanguage) \in DOMAIN lmaps[cfg.localizerMap]

\* C8: Localize never panics: whatever the context and params, it returns
\* a text or an error.
C8_PanicFree ==
  \A r \in Reqs : Done(reqs[r]) => reqs[r].res.kind \in {"ok", "err"}

\* C9: for a message ID the resolved language's bundle file lacks, Localize
\* returns no text and an error naming the message ID and the resolved
\* language.
C9_ErrorNamesIdAndLang ==
  \A r \in Reqs :
    LET q == reqs[r]
        cfg == cfgs[q.local]
    IN (Done(q) /\ Served(q) /\ PlainParams(q.params)
        /\ q.lang \in AcceptedNames(cfg)
        /\ q.params.MessageID \notin DOMAIN BundleFile(cfg, q.lang).messages)
       => /\ q.res.kind = "err" /\ q.res.text = <<>>
          /\ q.res.err.id = q.params.MessageID
          /\ q.res.err.lang = q.lang

\* C10: MustLocalize returns the text Localize returns, panics with the
\* error Localize returns, and the step in which it panics changes neither
\* the shared state nor another request.
C10_MustLocalize ==
  /\ [](\A r \in Reqs :
          LET q == reqs[r]
          IN (Done(q) /\ q.must) =>
               /\ q.res.kind = "ok" => q.out = q.res
               /\ q.res.kind = "err" => (q.out.kind = "panic" /\ q.out.err = q.res.err
                                         /\ q.out.text = <<>>))
  /\ [][\A r \in Reqs :
          (reqs[r].must /\ ~Done(reqs[r]) /\ Done(reqs'[r]) /\ reqs'[r].out.kind = "panic") =>
            /\ cfgs' = cfgs /\ bundles' = bundles /\ lmaps' = lmaps
            /\ \A o \in Reqs \ {r} : reqs'[o] = reqs[o]]_vars

C10_Witness ==
  \E r, o \in Reqs :
    /\ r # o /\ reqs[o].pc = "resolve"
    /\ Done(reqs[r]) /\ reqs[r].must /\ Served(reqs[r])
    /\ reqs[r].res.kind = "err" /\ reqs[r].out.kind = "panic"
    /\ reqs[r].res.err.msg = "message not found in language"

====
